---- MODULE Spec2Model ----
(***************************************************************************)
(* A model of Gemma/Docling_Gemma3/docling_processor.py:                   *)
(*   - process_document_with_docling (lines 7-47), one statement per step, *)
(*   - the demo entry point (lines 51-57 and 136-146).                     *)
(* The docling and reportlab libraries are external: a call into them      *)
(* either returns or raises an Exception subclass, and what docling does   *)
(* with a file is a function of the file (a deterministic capability).     *)
(* The built-ins (print, slicing, os.path.exists, dict construction) do    *)
(* what Python defines them to do.                                         *)
(***************************************************************************)
EXTENDS Integers, Sequences, FiniteSets, TLC

VARIABLES files, arg, pc, frame, retval, attempts, ncalls, console, results,
          mpc, exists_seen, extracted_data, written

vars == <<files, arg, pc, frame, retval, attempts, ncalls, console, results,
          mpc, exists_seen, extracted_data, written>>

\* ------------------------------------------------------------------ bounds

\* Calls the sequential caller makes, one after the other.
MaxCalls == 2
\* Length of a short document text (below the preview length).
ShortLen == 10
\* How far beyond the preview length a long document text goes.
MaxOver == 1

\* The slice bound of the two previews, markdown_content[:500].
PreviewLen == 500

\* The threads of the caller; each runs invocations of the extractor.
Threads == {"t1", "t2"}
MainThread == "t1"

\* The script's dummy_pdf_path, and one more path a caller may pass.
dummy_pdf_path == "C:\\development\\gemma-cookbook\\Gemma\\Docling_Gemma3\\pdf\\ddr.pdf"
Paths == {dummy_pdf_path, "scan.png"}

\* ------------------------------------------------------- the external world

\* Lengths of the texts docling may produce for a document.
Lens == {0, ShortLen} \cup {PreviewLen + d : d \in 0..MaxOver}

\* What docling does with a file: fault names the call that raises, if any.
\* A missing file makes from_file raise.
Absent == [exists |-> FALSE, fault |-> "from_file", md_len |-> 0, txt_len |-> 0]
Kinds ==
    {Absent}
    \cup {[exists |-> TRUE, fault |-> "from_file", md_len |-> 0, txt_len |-> 0]}
    \cup {[exists |-> TRUE, fault |-> "to_markdown", md_len |-> 0, txt_len |-> 0]}
    \cup {[exists |-> TRUE, fault |-> "to_text", md_len |-> m, txt_len |-> 0] : m \in Lens}
    \cup {[exists |-> TRUE, fault |-> "none", md_len |-> m, txt_len |-> n] : m \in Lens, n \in Lens}

Chars == <<"a", "b", "c">>
\* The texts docling derives from a document: characters, one per position.
MdText(n) == [i \in 1..n |-> IF i = 1 THEN "#" ELSE Chars[(i % 3) + 1]]
TxtText(n) == [i \in 1..n |-> Chars[(i % 3) + 1]]

Returned(v) == [raised |-> FALSE, val |-> v]
Raised(err) == [raised |-> TRUE, val |-> err]

\* Document.from_file(file_path): the document object, or an error.
FromFileCall(p) ==
    IF ~files[p].exists THEN Raised(<<"FileNotFoundError", p>>)
    ELSE IF files[p].fault = "from_file" THEN Raised(<<"ConversionError", p>>)
    ELSE Returned(files[p])

\* doc.to_markdown()
ToMarkdownCall(d) ==
    IF d.fault = "to_markdown" THEN Raised(<<"MarkdownExportError">>)
    ELSE Returned(MdText(d.md_len))

\* doc.to_text()
ToTextCall(d) ==
    IF d.fault = "to_text" THEN Raised(<<"TextExportError">>)
    ELSE Returned(TxtText(d.txt_len))

\* ------------------------------------------------------------ Python values

None == [tag |-> "None"]
Unset == [tag |-> "unset"]
NoDoc == [exists |-> FALSE, fault |-> "unset", md_len |-> 0, txt_len |-> 0]
NoText == <<"unset">>
NoPath == "unset"

FreshFrame == [file_path |-> NoPath, doc |-> NoDoc, markdown_content |-> NoText,
               plain_text_content |-> NoText, e |-> <<>>]

\* s[:n] for n >= 0: the first min(len(s), n) characters; slicing never raises.
StrictSlice(s, n) ==
    IF n <= Len(s) THEN Returned(SubSeq(s, 1, n)) ELSE Raised(<<"IndexError">>)
Slice(s, n) == Returned(SubSeq(s, 1, IF n < Len(s) THEN n ELSE Len(s)))

\* The dict of lines 39-43.
TruncatedRecord(md, txt) ==
    [markdown_content |-> Slice(md, PreviewLen).val,
     plain_text_content |-> Slice(txt, PreviewLen).val]
AccumulatingRecord(md, txt) ==
    [markdown_content |->
        (IF results = <<>> \/ results[Len(results)].value = None THEN <<>>
         ELSE results[Len(results)].value.markdown_content) \o md,
     plain_text_content |-> txt]
ValidatedRecord(md, txt) ==
    IF md = <<>> \/ txt = <<>> THEN None
    ELSE [markdown_content |-> md, plain_text_content |-> txt]
ResultRecord(md, txt) == [markdown_content |-> md, plain_text_content |-> txt]

\* bool(v) of line 142: None is false, a dict is true when it has a key.
TruthyByContent(v) ==
    /\ v # None
    /\ v.markdown_content # <<>>
    /\ v.plain_text_content # <<>>
Truthy(v) == v # None /\ DOMAIN v # {}

\* The frame of locals an invocation run by thread t uses: its own.
GlobalFrame(t) == MainThread
Frame(t) == t

\* Where control goes when a statement of the try block raises err:
\* "except Exception" catches every error.
RetryHandler(t, err) == IF attempts[t] < 2 THEN "l20" ELSE "l46"
NarrowHandler(t, err) == IF err[1] = "FileNotFoundError" THEN "l46" ELSE "propagated"
Handler(t, err) == "l46"

\* print: one line more on the console, tagged with the invocation printing it.
Line(t, stmt, text) == [by |-> <<t, ncalls[t]>>, stmt |-> stmt, text |-> text]

\* What the except clause returns (line 47).
PartialReturn(t) ==
    IF frame[Frame(t)].markdown_content # NoText
    THEN [markdown_content |-> frame[Frame(t)].markdown_content]
    ELSE None
ExceptReturn(t) == None

\* The lines the except clause prints (line 46).
NoisyExceptLines(t) ==
    <<Line(t, "announce", <<"Docling processing successful for: ", frame[Frame(t)].file_path>>),
      Line(t, "error", <<"Error processing document with Docling: ">> \o frame[Frame(t)].e)>>
ExceptLines(t) ==
    <<Line(t, "error", <<"Error processing document with Docling: ">> \o frame[Frame(t)].e)>>

\* ------------------------------------------- process_document_with_docling

\* A statement of the try block raised err: e is bound and control moves.
Raise(t, err) ==
    /\ frame' = [frame EXCEPT ![Frame(t)].e = err]
    /\ pc' = [pc EXCEPT ![t] = Handler(t, err)]

\* The call: a new frame with file_path bound to the caller's argument.
Call(t, p) ==
    /\ pc[t] \in {"idle", "returned"}
    /\ arg' = [arg EXCEPT ![t] = p]
    /\ pc' = [pc EXCEPT ![t] = "l20"]
    /\ frame' = [frame EXCEPT ![Frame(t)] = [FreshFrame EXCEPT !.file_path = p]]
    /\ retval' = [retval EXCEPT ![t] = Unset]
    /\ attempts' = [attempts EXCEPT ![t] = 0]
    /\ ncalls' = [ncalls EXCEPT ![t] = @ + 1]

\* line 20: doc = Document.from_file(file_path)
FromFile(t) ==
    /\ pc[t] = "l20"
    /\ attempts' = [attempts EXCEPT ![t] = @ + 1]
    /\ LET r == FromFileCall(frame[Frame(t)].file_path) IN
        IF r.raised THEN Raise(t, r.val)
        ELSE /\ frame' = [frame EXCEPT ![Frame(t)].doc = r.val]
             /\ pc' = [pc EXCEPT ![t] = "l25"]
    /\ UNCHANGED <<files, arg, retval, ncalls, console, results,
                   mpc, exists_seen, extracted_data, written>>

\* line 25: markdown_content = doc.to_markdown()
ToMarkdown(t) ==
    /\ pc[t] = "l25"
    /\ LET r == ToMarkdownCall(frame[Frame(t)].doc) IN
        IF r.raised THEN Raise(t, r.val)
        ELSE /\ frame' = [frame EXCEPT ![Frame(t)].markdown_content = r.val]
             /\ pc' = [pc EXCEPT ![t] = "l28"]
    /\ UNCHANGED <<files, arg, retval, attempts, ncalls, console, results,
                   mpc, exists_seen, extracted_data, written>>

\* line 28: plain_text_content = doc.to_text()
ToText(t) ==
    /\ pc[t] = "l28"
    /\ LET r == ToTextCall(frame[Frame(t)].doc) IN
        IF r.raised THEN Raise(t, r.val)
        ELSE /\ frame' = [frame EXCEPT ![Frame(t)].plain_text_content = r.val]
             /\ pc' = [pc EXCEPT ![t] = "l33"]
    /\ UNCHANGED <<files, arg, retval, attempts, ncalls, console, results,
                   mpc, exists_seen, extracted_data, written>>

\* line 33: print(f"Docling processing successful for: {file_path}")
PrintSuccess(t) ==
    /\ pc[t] = "l33"
    /\ console' = Append(console,
          Line(t, "announce", <<"Docling processing successful for: ", frame[Frame(t)].file_path>>))
    /\ pc' = [pc EXCEPT ![t] = "l34"]
    /\ UNCHANGED <<files, arg, frame, retval, attempts, ncalls, results,
                   mpc, exists_seen, extracted_data, written>>

\* line 34: print("\n--- Extracted Markdown (first 500 chars) ---")
PrintMarkdownHeader(t) ==
    /\ pc[t] = "l34"
    /\ console' = Append(console,
          Line(t, "md_header", <<"\n--- Extracted Markdown (first 500 chars) ---">>))
    /\ pc' = [pc EXCEPT ![t] = "l35"]
    /\ UNCHANGED <<files, arg, frame, retval, attempts, ncalls, results,
                   mpc, exists_seen, extracted_data, written>>

\* line 35: print(markdown_content[:500])
PrintMarkdownPreview(t) ==
    /\ pc[t] = "l35"
    /\ LET r == Slice(frame[Frame(t)].markdown_content, PreviewLen) IN
        IF r.raised THEN Raise(t, r.val) /\ UNCHANGED console
        ELSE /\ console' = Append(console, Line(t, "md_preview", r.val))
             /\ pc' = [pc EXCEPT ![t] = "l36"]
             /\ UNCHANGED frame
    /\ UNCHANGED <<files, arg, retval, attempts, ncalls, results,
                   mpc, exists_seen, extracted_data, written>>

\* line 36: print("\n--- Extracted Plain Text (first 500 chars) ---")
PrintTextHeader(t) ==
    /\ pc[t] = "l36"
    /\ console' = Append(console,
          Line(t, "txt_header", <<"\n--- Extracted Plain Text (first 500 chars) ---">>))
    /\ pc' = [pc EXCEPT ![t] = "l37"]
    /\ UNCHANGED <<files, arg, frame, retval, attempts, ncalls, results,
                   mpc, exists_seen, extracted_data, written>>

\* line 37: print(plain_text_content[:500])
PrintTextPreview(t) ==
    /\ pc[t] = "l37"
    /\ LET r == Slice(frame[Frame(t)].plain_text_content, PreviewLen) IN
        IF r.raised THEN Raise(t, r.val) /\ UNCHANGED console
        ELSE /\ console' = Append(console, Line(t, "txt_preview", r.val))
             /\ pc' = [pc EXCEPT ![t] = "l39"]
             /\ UNCHANGED frame
    /\ UNCHANGED <<files, arg, retval, attempts, ncalls, results,
                   mpc, exists_seen, extracted_data, written>>

\* The caller receives v: the invocation is over.
Return(t, v) ==
    /\ retval' = [retval EXCEPT ![t] = v]
    /\ results' = Append(results,
          [by |-> <<t, ncalls[t]>>, path |-> arg[t], value |-> v])
    /\ pc' = [pc EXCEPT ![t] = "returned"]

\* lines 39-43: return {"markdown_content": ..., "plain_text_content": ...}
ReturnResult(t) ==
    /\ pc[t] = "l39"
    /\ Return(t, ResultRecord(frame[Frame(t)].markdown_content,
                              frame[Frame(t)].plain_text_content))
    /\ UNCHANGED <<files, arg, frame, attempts, ncalls, console,
                   mpc, exists_seen, extracted_data, written>>

\* lines 45-46: except Exception as e: print(f"Error processing ...: {e}")
PrintError(t) ==
    /\ pc[t] = "l46"
    /\ console' = console \o ExceptLines(t)
    /\ pc' = [pc EXCEPT ![t] = "l47"]
    /\ UNCHANGED <<files, arg, frame, retval, attempts, ncalls, results,
                   mpc, exists_seen, extracted_data, written>>

\* line 47: return None
ReturnNone(t) ==
    /\ pc[t] = "l47"
    /\ Return(t, ExceptReturn(t))
    /\ UNCHANGED <<files, arg, frame, attempts, ncalls, console,
                   mpc, exists_seen, extracted_data, written>>

\* One statement of the invocation thread t runs.
Step(t) ==
    \/ FromFile(t)
    \/ ToMarkdown(t)
    \/ ToText(t)
    \/ PrintSuccess(t)
    \/ PrintMarkdownHeader(t)
    \/ PrintMarkdownPreview(t)
    \/ PrintTextHeader(t)
    \/ PrintTextPreview(t)
    \/ ReturnResult(t)
    \/ PrintError(t)
    \/ ReturnNone(t)

InitExtractor ==
    /\ arg = [t \in Threads |-> NoPath]
    /\ pc = [t \in Threads |-> "idle"]
    /\ frame = [t \in Threads |-> FreshFrame]
    /\ retval = [t \in Threads |-> Unset]
    /\ attempts = [t \in Threads |-> 0]
    /\ ncalls = [t \in Threads |-> 0]
    /\ console = <<>>
    /\ results = <<>>

ScriptIdle ==
    /\ mpc = "off"
    /\ exists_seen = FALSE
    /\ extracted_data = Unset
    /\ written = {}

\* ------------------------------------------------- a sequential caller

\* A caller calls the extractor on a path, MaxCalls times at most.
CallerCalls ==
    /\ ncalls[MainThread] < MaxCalls
    /\ \E p \in Paths : Call(MainThread, p)
    /\ UNCHANGED <<files, console, results, mpc, exists_seen, extracted_data, written>>

Init ==
    /\ files \in [Paths -> Kinds]
    /\ InitExtractor
    /\ ScriptIdle

Next == CallerCalls \/ Step(MainThread)

Spec == Init /\ [][Next]_vars

\* ------------------------------------------------- concurrent callers

\* Each thread calls the extractor once, on a path of its choice; the
\* statements of the invocations interleave.
ThreadCalls(t) ==
    /\ ncalls[t] = 0
    /\ \E p \in Paths : Call(t, p)
    /\ UNCHANGED <<files, console, results, mpc, exists_seen, extracted_data, written>>

\* The documents of the concurrent callers: those with short texts.
ConcKinds == {k \in Kinds : k.md_len <= ShortLen /\ k.txt_len <= ShortLen}

ConcInit ==
    /\ files \in [Paths -> ConcKinds]
    /\ InitExtractor
    /\ ScriptIdle

ConcNext == \E t \in Threads : ThreadCalls(t) \/ Step(t)

ConcSpec == ConcInit /\ [][ConcNext]_vars

\* ------------------------------------------------- the demo entry point

\* line 57: if not os.path.exists(dummy_pdf_path)
CheckExists ==
    /\ mpc = "l57"
    /\ exists_seen' = files[dummy_pdf_path].exists
    /\ mpc' = IF files[dummy_pdf_path].exists THEN "l140" ELSE "l69"
    /\ UNCHANGED <<files, arg, pc, frame, retval, attempts, ncalls, console, results,
                   extracted_data, written>>

\* lines 69-136: SimpleDocTemplate(dummy_pdf_path) ... doc.build(story) writes
\* the sample report; what docling makes of it is docling's business.
BuildSample ==
    /\ mpc = "l69"
    /\ \E k \in Kinds \ {Absent} : files' = [files EXCEPT ![dummy_pdf_path] = k]
    /\ written' = written \cup {[path |-> dummy_pdf_path,
                                  replaced |-> files[dummy_pdf_path].exists]}
    /\ mpc' = "l137"
    /\ UNCHANGED <<arg, pc, frame, retval, attempts, ncalls, console, results,
                   exists_seen, extracted_data>>

\* lines 69-136, reportlab raising (no except clause: the script ends).
BuildFails ==
    /\ mpc = "l69"
    /\ mpc' = "crashed"
    /\ UNCHANGED <<files, arg, pc, frame, retval, attempts, ncalls, console, results,
                   exists_seen, extracted_data, written>>

\* line 137: print(f"Created dummy PDF at: {dummy_pdf_path}")
PrintCreated ==
    /\ mpc = "l137"
    /\ console' = Append(console,
          [by |-> <<"script", 0>>, stmt |-> "created",
           text |-> <<"Created dummy PDF at: ", dummy_pdf_path>>])
    /\ mpc' = "l140"
    /\ UNCHANGED <<files, arg, pc, frame, retval, attempts, ncalls, results,
                   exists_seen, extracted_data, written>>

\* line 140, the call: process_document_with_docling(dummy_pdf_path)
CallExtractor ==
    /\ mpc = "l140"
    /\ Call(MainThread, dummy_pdf_path)
    /\ mpc' = "in_call"
    /\ UNCHANGED <<files, console, results, exists_seen, extracted_data, written>>

\* line 140, the assignment: extracted_data = <the value returned>
AssignExtracted ==
    /\ mpc = "in_call"
    /\ pc[MainThread] = "returned"
    /\ extracted_data' = retval[MainThread]
    /\ mpc' = "l142"
    /\ UNCHANGED <<files, arg, pc, frame, retval, attempts, ncalls, console, results,
                   exists_seen, written>>

\* lines 142-144: if extracted_data: print("... Ready for Gemma integration.")
ReportReady ==
    /\ mpc = "l142"
    /\ Truthy(extracted_data)
    /\ console' = Append(console,
          [by |-> <<"script", 0>>, stmt |-> "ready",
           text |-> <<"\nDocling extraction complete. Ready for Gemma integration.">>])
    /\ mpc' = "done"
    /\ UNCHANGED <<files, arg, pc, frame, retval, attempts, ncalls, results,
                   exists_seen, extracted_data, written>>

\* lines 145-146: else: print("... Cannot proceed to Gemma integration.")
ReportFailed ==
    /\ mpc = "l142"
    /\ ~Truthy(extracted_data)
    /\ console' = Append(console,
          [by |-> <<"script", 0>>, stmt |-> "failed",
           text |-> <<"\nDocling extraction failed. Cannot proceed to Gemma integration.">>])
    /\ mpc' = "done"
    /\ UNCHANGED <<files, arg, pc, frame, retval, attempts, ncalls, results,
                   exists_seen, extracted_data, written>>

\* The script starts with any file, or none, at dummy_pdf_path.
MainInit ==
    /\ files \in {f \in [Paths -> Kinds] : \A p \in Paths \ {dummy_pdf_path} : f[p] = Absent}
    /\ InitExtractor
    /\ mpc = "l57"
    /\ exists_seen = FALSE
    /\ extracted_data = Unset
    /\ written = {}

MainNext ==
    \/ CheckExists
    \/ BuildSample
    \/ BuildFails
    \/ PrintCreated
    \/ CallExtractor
    \/ AssignExtracted
    \/ ReportReady
    \/ ReportFailed
    \/ Step(MainThread)

MainSpec == MainInit /\ [][MainNext]_vars

\* ================================================================ claims

\* The lines the current invocation of thread t has printed, in order.
Printed(t) == SelectSeq(console, LAMBDA l : l.by = <<t, ncalls[t]>>)
Stmts(t) == [i \in 1..Len(Printed(t)) |-> Printed(t)[i].stmt]
\* The script's own lines with statement tag s.
ScriptLines(s) == SelectSeq(console, LAMBDA l : l.by = <<"script", 0>> /\ l.stmt = s)

Called(t) == arg[t] # NoPath
\* The document at the path thread t was called with.
Given(t) == files[arg[t]]
\* The error the capability raises for document k at path p.
ErrorFor(p, k) ==
    IF k.fault = "from_file" THEN FromFileCall(p).val
    ELSE IF k.fault = "to_markdown" THEN ToMarkdownCall(k).val
    ELSE ToTextCall(k).val
\* part occurs in text as a contiguous run.
Includes(text, part) ==
    \E i \in 1..(Len(text) - Len(part) + 1) : SubSeq(text, i, i + Len(part) - 1) = part
IsResult(v) == DOMAIN v = {"markdown_content", "plain_text_content"}
Min(a, b) == IF a < b THEN a ELSE b
\* What one invocation on path p returns when it runs alone.
Alone(p) ==
    IF files[p].fault # "none" THEN None
    ELSE [markdown_content |-> MdText(files[p].md_len),
          plain_text_content |-> TxtText(files[p].txt_len)]

\* C1: when the conversion capability raises (missing file, corrupt or
\* unsupported file, a fault inside to_markdown or to_text), the error never
\* leaves the extractor: control stays inside it or goes to the except
\* clause, and the invocation returns None after printing a line that
\* includes the error's content.
ErrorsAreContained ==
    \A t \in Threads :
        (Called(t) /\ Given(t).fault # "none") =>
            /\ pc[t] # "propagated"
            /\ pc[t] \notin {"l33", "l34", "l35", "l36", "l37", "l39"}
            /\ pc[t] = "returned" =>
                /\ retval[t] = None
                /\ \E i \in 1..Len(Printed(t)) :
                      /\ Printed(t)[i].stmt = "error"
                      /\ Includes(Printed(t)[i].text, ErrorFor(arg[t], Given(t)))

\* C1 witness: invocations on a missing file and on a corrupt file have both
\* returned None.
ErrorsAreContainedWitness ==
    /\ Len(results) = 2
    /\ pc[MainThread] = "returned"
    /\ ~files[results[1].path].exists
    /\ files[results[2].path].exists
    /\ files[results[2].path].fault = "from_file"
    /\ results[1].value = None
    /\ results[2].value = None

\* C2: a value is returned as a result only when all three conversion calls
\* succeeded, and then it has both fields; when any call fails (also
\* to_markdown or to_text after a successful from_file) None is returned,
\* never a record with one field.
NoPartialResult ==
    \A t \in Threads :
        retval[t] # Unset =>
            /\ retval[t] = None \/ IsResult(retval[t])
            /\ IsResult(retval[t]) => Given(t).fault = "none"
            /\ Given(t).fault # "none" => retval[t] = None

\* C2 witness: to_markdown gave a non-empty text, to_text raised, and the
\* invocation returned None.
NoPartialResultWitness ==
    \E t \in Threads :
        /\ pc[t] = "returned"
        /\ Given(t).fault = "to_text"
        /\ Given(t).md_len > 0
        /\ frame[t].markdown_content = MdText(Given(t).md_len)
        /\ retval[t] = None

\* C3 as stated: an invocation that returns a result has printed two lines,
\* one that returns None has printed one.
TwoPrintsOnSuccess ==
    \A t \in Threads :
        pc[t] = "returned" =>
            /\ retval[t] # None => Len(Printed(t)) = 2
            /\ retval[t] = None => Len(Printed(t)) = 1

\* C3 amended: the prints are fixed by the outcome: an invocation that
\* returns a result has printed five lines (the announcement, and a header
\* and a preview for each text), one that returns None has printed the error
\* line alone, so never the announcement or a preview; the invocation has
\* written no file.
PrintsFixedByOutcome ==
    /\ written = {}
    /\ \A t \in Threads :
        pc[t] = "returned" =>
            /\ retval[t] # None =>
                  Stmts(t) = <<"announce", "md_header", "md_preview",
                               "txt_header", "txt_preview">>
            /\ retval[t] = None => Stmts(t) = <<"error">>

\* C3 witness: a first invocation returned a result, a second failed in
\* to_text (the last call that can fail), and the console holds 5 + 1 lines.
PrintsFixedByOutcomeWitness ==
    /\ Len(results) = 2
    /\ pc[MainThread] = "returned"
    /\ results[1].value # None
    /\ results[2].value = None
    /\ files[results[2].path].fault = "to_text"
    /\ Len(console) = 6

\* C4: a returned record has exactly the entries markdown_content and
\* plain_text_content, holding the whole texts to_markdown and to_text
\* returned; only the printed previews are cut to 500 characters.
FullStringsReturned ==
    \A t \in Threads :
        (retval[t] # Unset /\ retval[t] # None) =>
            /\ IsResult(retval[t])
            /\ retval[t].markdown_content = MdText(Given(t).md_len)
            /\ retval[t].plain_text_content = TxtText(Given(t).txt_len)
            /\ \A i \in 1..Len(Printed(t)) :
                  Printed(t)[i].stmt \in {"md_preview", "txt_preview"} =>
                      Len(Printed(t)[i].text) <= PreviewLen

\* C4 witness: both texts are longer than 500 characters, the previews
\* printed are 500 long and the record returned holds the longer texts.
FullStringsReturnedWitness ==
    \E t \in Threads :
        /\ pc[t] = "returned"
        /\ retval[t] # None
        /\ Len(retval[t].markdown_content) > PreviewLen
        /\ Len(retval[t].plain_text_content) > PreviewLen
        /\ Len(Printed(t)[3].text) = PreviewLen
        /\ Len(Printed(t)[5].text) = PreviewLen

\* C5 as stated: for a document on which no conversion call raises, the
\* invocation returns a result whose two texts are both non-empty.
NonEmptyOnValid ==
    \A t \in Threads :
        (pc[t] = "returned" /\ Given(t).fault = "none") =>
            /\ retval[t] # None
            /\ retval[t].markdown_content # <<>>
            /\ retval[t].plain_text_content # <<>>

\* C5 amended: for a document on which no conversion call raises, the
\* invocation returns a result, and each of its two texts is non-empty
\* exactly when the text the conversion produced is non-empty.
ResultOnValid ==
    \A t \in Threads :
        (pc[t] = "returned" /\ Given(t).fault = "none") =>
            /\ retval[t] # None
            /\ IsResult(retval[t])
            /\ retval[t].markdown_content # <<>> <=> Given(t).md_len > 0
            /\ retval[t].plain_text_content # <<>> <=> Given(t).txt_len > 0

\* C5 witness: a document with no markdown and some plain text came back as
\* a result with an empty markdown_content.
ResultOnValidWitness ==
    \E t \in Threads :
        /\ pc[t] = "returned"
        /\ Given(t).fault = "none"
        /\ Given(t).md_len = 0
        /\ Given(t).txt_len > 0
        /\ retval[t] # None
        /\ retval[t].markdown_content = <<>>
        /\ retval[t].plain_text_content # <<>>

\* C6: printing the previews never raises, whatever the length of the text
\* (empty and shorter than 500 included): once both conversions succeeded
\* the invocation never enters the except clause, each preview printed is
\* the prefix of its text of length min(len, 500), and the invocation
\* returns a result.
PreviewNeverThrows ==
    \A t \in Threads :
        (Called(t) /\ Given(t).fault = "none") =>
            /\ pc[t] \notin {"l46", "l47", "propagated"}
            /\ retval[t] # Unset => retval[t] # None
            /\ \A i \in 1..Len(Printed(t)) :
                  /\ Printed(t)[i].stmt = "md_preview" =>
                        Printed(t)[i].text =
                            SubSeq(MdText(Given(t).md_len), 1, Min(Given(t).md_len, PreviewLen))
                  /\ Printed(t)[i].stmt = "txt_preview" =>
                        Printed(t)[i].text =
                            SubSeq(TxtText(Given(t).txt_len), 1, Min(Given(t).txt_len, PreviewLen))

\* C6 witness: a markdown text of ShortLen characters was printed whole, an
\* empty plain text was printed as an empty line, and a result came back.
PreviewNeverThrowsWitness ==
    \E t \in Threads :
        /\ pc[t] = "returned"
        /\ Given(t).fault = "none"
        /\ Given(t).md_len = ShortLen
        /\ Given(t).txt_len = 0
        /\ Printed(t)[3].text = MdText(ShortLen)
        /\ Len(Printed(t)[3].text) = ShortLen
        /\ Printed(t)[5].text = <<>>
        /\ retval[t] # None

\* C7: with files unchanged and a deterministic capability, two invocations
\* on the same path return the same value: equal records, or None twice.
SamePathSameOutcome ==
    \A i \in 1..Len(results) : \A j \in 1..Len(results) :
        results[i].path = results[j].path => results[i].value = results[j].value

\* C7 witness: two invocations on one path returned records with a
\* non-empty markdown_content.
SamePathSameOutcomeWitness ==
    /\ Len(results) = 2
    /\ results[1].path = results[2].path
    /\ results[1].value # None
    /\ results[2].value # None
    /\ results[2].value.markdown_content # <<>>

\* C8: an invocation calls Document.from_file once: never before line 20 has
\* run, once from then on, never again after a failure; it never ends with
\* the error propagating, a returned value is None or a result record, and
\* until it returns it always has a next statement to run.
SingleAttempt ==
    \A t \in Threads :
        /\ attempts[t] = (IF pc[t] \in {"idle", "l20"} THEN 0 ELSE 1)
        /\ pc[t] # "propagated"
        /\ pc[t] = "returned" <=> retval[t] # Unset
        /\ pc[t] = "returned" => (retval[t] = None) # IsResult(retval[t])
        /\ pc[t] \notin {"idle", "returned"} => ENABLED Step(t)

\* C8 witness: from_file raised on a corrupt file, was called once, and the
\* invocation is over with None.
SingleAttemptWitness ==
    \E t \in Threads :
        /\ pc[t] = "returned"
        /\ Given(t).exists
        /\ Given(t).fault = "from_file"
        /\ attempts[t] = 1
        /\ retval[t] = None

\* C9: under every interleaving of the statements of two invocations, the
\* value an invocation returns is the one it returns running alone on its
\* path, whatever the other invocation does or returns.
IndependentInvocations ==
    \A t \in Threads :
        /\ retval[t] # Unset => retval[t] = Alone(arg[t])
        /\ pc[t] = "returned" => retval[t] # Unset

\* C9 witness: two invocations on distinct files interleaved (the one that
\* returned first was called first and printed after the other's line);
\* one failed and the other returned its result.
IndependentInvocationsWitness ==
    /\ \A t \in Threads : pc[t] = "returned"
    /\ arg["t1"] # arg["t2"]
    /\ retval["t1"] = None
    /\ retval["t2"] # None
    /\ retval["t2"].markdown_content # <<>>
    /\ console[1].by[1] = "t2"
    /\ console[2].by[1] = "t1"
    /\ console[3].by[1] = "t2"

\* C10: the script writes the sample only when no file was at the path,
\* calls the extractor once, on dummy_pdf_path, and when it ends it has
\* printed one of its two closing messages: the readiness message if and
\* only if the extractor returned a record (also one with two empty texts),
\* the failure message otherwise.
DemoReportsOutcome ==
    /\ \A w \in written : w.path = dummy_pdf_path /\ ~w.replaced
    /\ written # {} => ~exists_seen
    /\ ncalls[MainThread] <= 1
    /\ mpc \in {"in_call", "l142", "done"} =>
          ncalls[MainThread] = 1 /\ arg[MainThread] = dummy_pdf_path
    /\ mpc # "done" => ScriptLines("ready") = <<>> /\ ScriptLines("failed") = <<>>
    /\ mpc = "done" =>
          /\ extracted_data = retval[MainThread]
          /\ Len(ScriptLines("ready")) + Len(ScriptLines("failed")) = 1
          /\ Len(ScriptLines("ready")) = 1 <=> extracted_data # None

\* C10 witness: no file was there, the sample was written, the extractor
\* returned a record of two empty texts and the script reported readiness.
DemoReportsOutcomeWitness ==
    /\ mpc = "done"
    /\ written # {}
    /\ extracted_data # None
    /\ extracted_data.markdown_content = <<>>
    /\ extracted_data.plain_text_content = <<>>
    /\ Len(ScriptLines("ready")) = 1

====
